---- MODULE Spec2Model ----
(***************************************************************************)
(* Enrollment & grading domain of the course-management backend:           *)
(* apps/courses (models, serializers, permissions, views).                 *)
(*                                                                         *)
(* The relational store is four tables (sets of rows carrying their        *)
(* primary key).  Every operation is one action: an HTTP handler of a      *)
(* viewset (permission classes, object lookup, serializer validation,      *)
(* model save and the recomputations save triggers), or a model-layer      *)
(* call as the repository's tests and fixtures make it                     *)
(* (Enrollment.objects.create, Submission.objects.create, instance.save).  *)
(* Decimal columns with two decimal places are kept in hundredths.         *)
(* inflight holds the Enrollment creates that overlap: those that have     *)
(* passed clean() and have not yet reached the INSERT.  pending holds the  *)
(* grade recomputations that overlap: those that have read the reviewed    *)
(* submissions and have not yet written Enrollment.grade.  accounts is the *)
(* user table with each user's role profiles (apps/profiles).              *)
(***************************************************************************)
EXTENDS Integers, FiniteSets, Sequences, TLC

VARIABLES now, courses, assignments, enrollments, submissions, inflight, accounts,
          pending, last

vars == <<now, courses, assignments, enrollments, submissions, inflight, accounts,
          pending, last>>

-----------------------------------------------------------------------------
(* Bounds of the model *)

MaxTime == 2
MaxCourses == 1
MaxAssignments == 2
MaxSubmissions == 2

-----------------------------------------------------------------------------
(* Nullable values: None, or a one-element tuple holding the value *)

None == <<>>
Some(v) == <<v>>
Val(o) == o[1]

(* Principals.  A user holds a teacher profile, a student profile, or     *)
(* both (the two one-to-one relations are independent).                    *)
Users == {"t1", "t2", "ts", "s1", "s2"}
TeacherProfiles == {"t1", "t2", "ts"}
StudentProfiles == {"ts", "s1", "s2"}

HasTeacherProfile(u) == u \in TeacherProfiles
HasStudentProfile(u) == u \in StudentProfiles

SAFE_METHODS == {"GET", "HEAD", "OPTIONS"}

-----------------------------------------------------------------------------
(* Tables *)

CourseIds == 1..(MaxCourses + 1)
AssignmentIds == 1..(MaxAssignments + 1)

Min(S) == CHOOSE x \in S : \A y \in S : x <= y

(* BaseModel.id: the primary key is filled in by its default when the      *)
(* instance is built, before save() or clean() run; it is never empty.     *)
uuid4(rows) == Min({n \in 1..(Cardinality(rows) + 1) : \A r \in rows : r.id # n})
BaseModel_id(rows) == Some(uuid4(rows))

CourseById(cid) == CHOOSE c \in courses : c.id = cid
AssignmentById(asgs, aid) == CHOOSE a \in asgs : a.id = aid

(* Course.is_enrollment_active *)
is_enrollment_active(c) ==
    c.is_active /\ c.enrollment_open /\ c.end_date >= now

(* Course.student_count *)
student_count(cid, enrs) ==
    Cardinality({e \in enrs : e.course = cid /\ e.is_active})

(* Course.available_slots *)
available_slots(c, enrs) ==
    LET free == c.max_students - student_count(c.id, enrs)
    IN IF free > 0 THEN free ELSE 0

(* Course.clean without the comparison of the dates *)
Course_clean_unchecked(c) == "ok"

(* Course.clean *)
Course_clean(c) ==
    IF c.end_date < c.start_date THEN "end_date" ELSE "ok"

-----------------------------------------------------------------------------
(* The outcome of the last operation: the handler (or model call), the     *)
(* principal, the primary key it addressed, the HTTP status (or exception) *)
(* and the reason of a refusal.                                            *)
Outcome(op, user, obj, status, err) ==
    [op |-> op, user |-> user, obj |-> obj, status |-> status, err |-> err]

-----------------------------------------------------------------------------
(* Enrollment *)

(* Enrollment.clean; pk is the instance's primary key *)
Enrollment_clean(c, pk, enrs) ==
    IF ~is_enrollment_active(c) /\ pk = None THEN "closed"
    ELSE IF student_count(c.id, enrs) >= c.max_students /\ pk = None THEN "capacity"
    ELSE "ok"

(* Enrollment.save: clean(), then the INSERT or UPDATE of Model.save with  *)
(* the unique_together (student, course) constraint of the table.          *)
Enrollment_save(e, enrs) ==
    LET verdict == Enrollment_clean(CourseById(e.course), Some(e.id), enrs)
        others  == {r \in enrs : r.id # e.id}
    IN IF verdict # "ok"
         THEN [status |-> "ValidationError", err |-> verdict, enrs |-> enrs]
       ELSE IF \E r \in others : r.student = e.student /\ r.course = e.course
         THEN [status |-> "IntegrityError", err |-> "unique", enrs |-> enrs]
       ELSE [status |-> "ok", err |-> "", enrs |-> others \cup {e}]

(* A new Enrollment instance with the field defaults *)
NewEnrollment(s, cid, enrs) ==
    [id |-> Val(BaseModel_id(enrs)), student |-> s, course |-> cid,
     is_active |-> TRUE, completion_percentage |-> 0, grade |-> None]

(* Enrollment.objects.create(student=s, course=c) *)
Enrollment_objects_create(s, cid) ==
    /\ \E c \in courses : c.id = cid
    /\ LET r == Enrollment_save(NewEnrollment(s, cid, enrollments), enrollments)
       IN /\ enrollments' = r.enrs
          /\ last' = Outcome("Enrollment.objects.create", s, cid, r.status, r.err)
    /\ UNCHANGED <<accounts, pending, inflight, now, courses, assignments, submissions>>

(* Two saves in flight.  Enrollment.save runs the reads of clean() and    *)
(* then the INSERT, with no lock and no transaction around the two; other  *)
(* callers run in between.  inflight holds the creates that have passed    *)
(* clean() and not yet inserted.                                           *)

(* The first half of Enrollment.objects.create: clean() passes *)
Enrollment_create_clean(s, cid) ==
    /\ \E c \in courses : c.id = cid
    /\ ~\E f \in inflight : f.student = s
    /\ Enrollment_clean(CourseById(cid), BaseModel_id(enrollments), enrollments) = "ok"
    /\ inflight' = inflight \cup {[student |-> s, course |-> cid]}
    /\ last' = Outcome("Enrollment.clean", s, cid, "ok", "")
    /\ UNCHANGED <<accounts, pending, now, courses, assignments, enrollments, submissions>>

(* The second half: the INSERT under unique_together (student, course) *)
Enrollment_create_insert(s, cid) ==
    /\ [student |-> s, course |-> cid] \in inflight
    /\ LET dup == \E e \in enrollments : e.student = s /\ e.course = cid
       IN /\ enrollments' = IF dup THEN enrollments
                            ELSE enrollments \cup {NewEnrollment(s, cid, enrollments)}
          /\ last' = IF dup
                       THEN Outcome("Enrollment.objects.create", s, cid,
                                    "IntegrityError", "unique")
                     ELSE Outcome("Enrollment.objects.create", s, cid, "ok", "")
    /\ inflight' = inflight \ {[student |-> s, course |-> cid]}
    /\ UNCHANGED <<accounts, pending, now, courses, assignments, submissions>>

(* IsCourseTeacher.has_permission *)
IsCourseTeacher_has_permission(u, action) ==
    IF action \in {"list", "retrieve"} THEN TRUE ELSE HasTeacherProfile(u)

(* IsCourseTeacher.has_object_permission; kind is the model of obj:        *)
(* a Course has the attributes teacher and enrollments, an Assignment has  *)
(* course, a Submission has neither teacher nor course.                    *)
IsCourseTeacher_has_object_permission(u, method, kind, teacher, cid) ==
    IF method \in SAFE_METHODS
      THEN IF HasTeacherProfile(u)
             THEN kind \in {"Course", "Assignment"} /\ teacher = u
           ELSE IF HasStudentProfile(u)
             THEN /\ kind \in {"Course", "Assignment"}
                  /\ \E e \in enrollments :
                        e.student = u /\ e.course = cid /\ e.is_active
           ELSE FALSE
    ELSE IF ~HasTeacherProfile(u) THEN FALSE
    ELSE kind \in {"Course", "Assignment"} /\ teacher = u

(* CourseViewSet.get_queryset *)
CourseViewSet_get_queryset(u) ==
    IF HasTeacherProfile(u) THEN {c \in courses : c.teacher = u}
    ELSE IF HasStudentProfile(u)
      THEN {c \in courses : \E e \in enrollments :
                e.course = c.id /\ e.student = u /\ e.is_active}
    ELSE {}

(* The steps DRF runs before and inside get_object() of a CourseViewSet    *)
(* detail action: permission classes, queryset lookup, object permission.  *)
CourseViewSet_admit(u, action, method, cid) ==
    IF ~IsCourseTeacher_has_permission(u, action) THEN "403"
    ELSE IF ~\E c \in CourseViewSet_get_queryset(u) : c.id = cid THEN "404"
    ELSE IF ~IsCourseTeacher_has_object_permission(
                u, method, "Course", CourseById(cid).teacher, cid) THEN "403"
    ELSE "ok"

(* Enrollment.objects.get_or_create(student, course, defaults) *)
Enrollment_get_or_create(s, cid, enrs) ==
    IF \E e \in enrs : e.student = s /\ e.course = cid
      THEN [created |-> FALSE, status |-> "ok", err |-> "", enrs |-> enrs,
            row |-> CHOOSE e \in enrs : e.student = s /\ e.course = cid]
    ELSE LET e == NewEnrollment(s, cid, enrs)
             r == Enrollment_save(e, enrs)
         IN [created |-> r.status = "ok", status |-> r.status, err |-> r.err,
             enrs |-> r.enrs, row |-> e]

(* enroll without the reactivation of an inactive row *)
enroll_body_no_reactivation(u, cid) ==
    IF ~HasStudentProfile(u)
      THEN [status |-> "403", err |-> "only_students", enrs |-> enrollments]
    ELSE LET g == Enrollment_get_or_create(u, cid, enrollments)
         IN [status |-> IF g.status # "ok" THEN "500"
                        ELSE IF g.created THEN "201" ELSE "200",
             err |-> g.err, enrs |-> g.enrs]

(* What the body of enroll does once the request is admitted *)
enroll_body(u, cid) ==
    IF ~HasStudentProfile(u)
      THEN [status |-> "403", err |-> "only_students", enrs |-> enrollments]
    ELSE LET g == Enrollment_get_or_create(u, cid, enrollments)
         IN IF g.status # "ok"
              THEN [status |-> "500", err |-> g.err, enrs |-> g.enrs]
            ELSE IF ~g.created /\ ~g.row.is_active
              THEN LET r == Enrollment_save([g.row EXCEPT !.is_active = TRUE], g.enrs)
                   IN [status |-> IF r.status = "ok" THEN "200" ELSE "500",
                       err |-> r.err, enrs |-> r.enrs]
            ELSE [status |-> IF g.created THEN "201" ELSE "200",
                  err |-> "", enrs |-> g.enrs]

(* CourseViewSet.enroll: POST /courses/{pk}/enroll/ *)
CourseViewSet_enroll(u, cid) ==
    /\ LET gate == CourseViewSet_admit(u, "enroll", "POST", cid)
           r == IF gate # "ok"
                  THEN [status |-> gate, err |-> "denied", enrs |-> enrollments]
                ELSE enroll_body(u, cid)
       IN /\ enrollments' = r.enrs
          /\ last' = Outcome("enroll", u, cid, r.status, r.err)
    /\ UNCHANGED <<accounts, pending, inflight, now, courses, assignments, submissions>>

(* CourseViewSet.unenroll: POST /courses/{pk}/unenroll/ *)
CourseViewSet_unenroll(u, cid) ==
    /\ LET gate == CourseViewSet_admit(u, "unenroll", "POST", cid)
           mine == {e \in enrollments : e.student = u /\ e.course = cid}
           r == IF gate # "ok"
                  THEN [status |-> gate, err |-> "denied", enrs |-> enrollments]
                ELSE IF ~HasStudentProfile(u)
                  THEN [status |-> "403", err |-> "only_students", enrs |-> enrollments]
                ELSE IF mine = {}
                  THEN [status |-> "404", err |-> "no_enrollment", enrs |-> enrollments]
                ELSE LET e == CHOOSE e \in mine : TRUE
                         s == Enrollment_save([e EXCEPT !.is_active = FALSE], enrollments)
                     IN [status |-> IF s.status = "ok" THEN "204" ELSE "500",
                         err |-> s.err, enrs |-> s.enrs]
       IN /\ enrollments' = r.enrs
          /\ last' = Outcome("unenroll", u, cid, r.status, r.err)
    /\ UNCHANGED <<accounts, pending, inflight, now, courses, assignments, submissions>>

-----------------------------------------------------------------------------
(* Course *)

(* CourseViewSet.create: POST /courses/ (CourseSerializer.validate,        *)
(* perform_create, Course.save)                                            *)
CourseViewSet_create(u, max_students, is_active, enrollment_open, start_date, end_date) ==
    /\ Cardinality(courses) < MaxCourses
    /\ LET c == [id |-> Val(BaseModel_id(courses)), teacher |-> u,
                 max_students |-> max_students, is_active |-> is_active,
                 enrollment_open |-> enrollment_open,
                 start_date |-> start_date, end_date |-> end_date]
           status == IF ~IsCourseTeacher_has_permission(u, "create") THEN "403"
                     ELSE IF end_date < start_date THEN "400"
                     ELSE IF ~HasTeacherProfile(u) THEN "403"
                     ELSE IF Course_clean(c) # "ok" THEN "500"
                     ELSE "201"
       IN /\ courses' = IF status = "201" THEN courses \cup {c} ELSE courses
          /\ last' = Outcome("create_course", u, c.id, status,
                             IF status = "400" THEN "end_date" ELSE "")
    /\ UNCHANGED <<accounts, pending, inflight, now, assignments, enrollments, submissions>>

(* Course.objects.create(teacher=..., ...), as the course fixture does:    *)
(* Course.save runs clean(), then the INSERT.  The table holds at most one *)
(* course more than requests may bring it to.                              *)
Course_objects_create(teacher, max_students, start_date, end_date) ==
    /\ Cardinality(courses) <= MaxCourses
    /\ LET c == [id |-> Val(BaseModel_id(courses)), teacher |-> teacher,
                 max_students |-> max_students, is_active |-> TRUE,
                 enrollment_open |-> TRUE,
                 start_date |-> start_date, end_date |-> end_date]
       IN /\ courses' = IF Course_clean(c) = "ok" THEN courses \cup {c} ELSE courses
          /\ last' = IF Course_clean(c) = "ok"
                       THEN Outcome("Course.objects.create", teacher, c.id, "ok", "")
                     ELSE Outcome("Course.objects.create", teacher, c.id,
                                  "ValidationError", Course_clean(c))
    /\ UNCHANGED <<accounts, pending, inflight, now, assignments, enrollments, submissions>>

(* course.start_date = ...; course.end_date = ...; course.save() on a      *)
(* stored course: clean(), then the UPDATE.                                *)
Course_save(cid, start_date, end_date) ==
    /\ \E c \in courses : c.id = cid
    /\ LET d == [CourseById(cid) EXCEPT !.start_date = start_date,
                                        !.end_date = end_date]
       IN /\ courses' = IF Course_clean(d) = "ok"
                          THEN {IF c.id = cid THEN d ELSE c : c \in courses}
                        ELSE courses
          /\ last' = IF Course_clean(d) = "ok"
                       THEN Outcome("Course.save", "", cid, "ok", "")
                     ELSE Outcome("Course.save", "", cid, "ValidationError",
                                  Course_clean(d))
    /\ UNCHANGED <<accounts, pending, inflight, now, assignments, enrollments, submissions>>

(* The dates a course has once the fields of a request are applied; a      *)
(* field the request does not carry is None.                               *)
patched_dates(c, start_date, end_date) ==
    [c EXCEPT !.start_date = IF start_date = None THEN @ ELSE Val(start_date),
              !.end_date = IF end_date = None THEN @ ELSE Val(end_date)]

(* CourseViewSet.partial_update: PATCH /courses/{pk}/ carrying start_date  *)
(* and/or end_date.  CourseSerializer.validate takes a date the request    *)
(* does not carry from the instance.                                       *)
CourseViewSet_partial_update(u, cid, start_date, end_date) ==
    /\ LET gate == CourseViewSet_admit(u, "partial_update", "PATCH", cid)
           status == IF gate # "ok" THEN gate
                     ELSE IF patched_dates(CourseById(cid), start_date, end_date).end_date
                               < patched_dates(CourseById(cid), start_date,
                                               end_date).start_date
                       THEN "400"
                     ELSE IF Course_clean(patched_dates(CourseById(cid), start_date,
                                                        end_date)) # "ok"
                       THEN "500"
                     ELSE "200"
       IN /\ courses' =
               IF status = "200"
                 THEN {IF c.id = cid THEN patched_dates(c, start_date, end_date)
                       ELSE c : c \in courses}
               ELSE courses
          /\ last' = Outcome("update_course", u, cid, status,
                             IF status \in {"400", "500"} THEN "end_date"
                             ELSE IF status = "200" THEN "" ELSE "denied")
    /\ UNCHANGED <<accounts, pending, inflight, now, assignments, enrollments, submissions>>

(* Time passes *)
Tick ==
    /\ now < MaxTime
    /\ now' = now + 1
    /\ last' = Outcome("tick", "", 0, "ok", "")
    /\ UNCHANGED <<accounts, pending, inflight, courses, assignments, enrollments, submissions>>

-----------------------------------------------------------------------------
(* Assignment *)

(* Assignment.is_past_due *)
is_past_due(a) == now > a.due_date

(* Assignment.can_accept_submission with the late deadline never looked at *)
can_accept_submission_no_deadline(a) ==
    IF ~is_past_due(a) THEN TRUE
    ELSE a.allow_late_submissions

(* Assignment.can_accept_submission *)
can_accept_submission(a) ==
    IF ~is_past_due(a) THEN TRUE
    ELSE IF a.allow_late_submissions
      THEN IF a.late_submission_deadline # None
             THEN now <= Val(a.late_submission_deadline)
           ELSE TRUE
    ELSE FALSE

(* Assignment.clean *)
Assignment_clean(a) ==
    IF a.due_date < now THEN "due_date"
    ELSE IF /\ a.allow_late_submissions
            /\ a.late_submission_deadline # None
            /\ Val(a.late_submission_deadline) < a.due_date
      THEN "late_submission_deadline"
    ELSE "ok"

(* AssignmentSerializer.validate on the fields a create request carries *)
AssignmentSerializer_validate(a) ==
    IF a.due_date < now THEN "due_date"
    ELSE IF /\ a.allow_late_submissions
            /\ a.late_submission_deadline # None
            /\ Val(a.late_submission_deadline) < a.due_date
      THEN "late_submission_deadline"
    ELSE "ok"

(* AssignmentViewSet.get_queryset *)
AssignmentViewSet_get_queryset(u) ==
    IF HasTeacherProfile(u)
      THEN {a \in assignments : CourseById(a.course).teacher = u}
    ELSE IF HasStudentProfile(u)
      THEN {a \in assignments : \E e \in enrollments :
                e.course = a.course /\ e.student = u /\ e.is_active}
    ELSE {}

(* AssignmentViewSet.create: POST /assignments/ (permission classes,       *)
(* AssignmentSerializer, perform_create, Assignment.save)                  *)
AssignmentViewSet_create(u, cid, max_points, weight, due_date, allow_late, late_deadline, attachment_required) ==
    /\ Cardinality(assignments) < MaxAssignments
    /\ \E c \in courses : c.id = cid
    /\ LET a == [id |-> Val(BaseModel_id(assignments)), course |-> cid,
                 max_points |-> max_points, weight |-> weight,
                 due_date |-> due_date, allow_late_submissions |-> allow_late,
                 late_submission_deadline |-> late_deadline,
                 attachment_required |-> attachment_required]
           r == IF ~IsCourseTeacher_has_permission(u, "create")
                  THEN [status |-> "403", err |-> "denied"]
                ELSE IF max_points < 0
                  THEN [status |-> "400", err |-> "max_points"]
                ELSE IF AssignmentSerializer_validate(a) # "ok"
                  THEN [status |-> "400", err |-> AssignmentSerializer_validate(a)]
                ELSE IF ~HasTeacherProfile(u)
                  THEN [status |-> "403", err |-> "only_teachers"]
                ELSE IF CourseById(cid).teacher # u
                  THEN [status |-> "403", err |-> "not_owner"]
                ELSE IF Assignment_clean(a) # "ok"
                  THEN [status |-> "500", err |-> Assignment_clean(a)]
                ELSE [status |-> "201", err |-> ""]
       IN /\ assignments' = IF r.status = "201" THEN assignments \cup {a}
                            ELSE assignments
          /\ last' = Outcome("create_assignment", u, a.id, r.status, r.err)
    /\ UNCHANGED <<accounts, pending, inflight, now, courses, enrollments, submissions>>

(* AssignmentViewSet.partial_update: PATCH /assignments/{pk}/ carrying     *)
(* max_points and weight (permission classes, get_object, the serializer's *)
(* validate, which reads only fields of the request, Assignment.save)      *)
AssignmentViewSet_partial_update(u, aid, max_points, weight) ==
    /\ LET r == IF ~IsCourseTeacher_has_permission(u, "partial_update")
                  THEN [status |-> "403", err |-> "denied"]
                ELSE IF ~\E a \in AssignmentViewSet_get_queryset(u) : a.id = aid
                  THEN [status |-> "404", err |-> "not_found"]
                ELSE LET a == AssignmentById(assignments, aid)
                         b == [a EXCEPT !.max_points = max_points, !.weight = weight]
                     IN IF ~IsCourseTeacher_has_object_permission(
                               u, "PATCH", "Assignment", CourseById(a.course).teacher,
                               a.course)
                          THEN [status |-> "403", err |-> "denied"]
                        ELSE IF max_points < 0
                          THEN [status |-> "400", err |-> "max_points"]
                        ELSE IF Assignment_clean(b) # "ok"
                          THEN [status |-> "500", err |-> Assignment_clean(b)]
                        ELSE [status |-> "200", err |-> ""]
       IN /\ assignments' =
               IF r.status = "200"
                 THEN {IF a.id = aid
                         THEN [a EXCEPT !.max_points = max_points, !.weight = weight]
                       ELSE a : a \in assignments}
               ELSE assignments
          /\ last' = Outcome("update_assignment", u, aid, r.status, r.err)
    /\ UNCHANGED <<accounts, pending, inflight, now, courses, enrollments, submissions>>

(* AssignmentViewSet.partial_update: PATCH /assignments/{pk}/ carrying     *)
(* course only.  The object permission is taken on the assignment as       *)
(* stored; the serializer's course field accepts the key of any course;    *)
(* there is no perform_update.                                             *)
AssignmentViewSet_patch_course(u, aid, cid) ==
    /\ LET r == IF ~IsCourseTeacher_has_permission(u, "partial_update")
                  THEN [status |-> "403", err |-> "denied"]
                ELSE IF ~\E a \in AssignmentViewSet_get_queryset(u) : a.id = aid
                  THEN [status |-> "404", err |-> "not_found"]
                ELSE LET a == AssignmentById(assignments, aid)
                         b == [a EXCEPT !.course = cid]
                     IN IF ~IsCourseTeacher_has_object_permission(
                               u, "PATCH", "Assignment", CourseById(a.course).teacher,
                               a.course)
                          THEN [status |-> "403", err |-> "denied"]
                        ELSE IF ~\E c \in courses : c.id = cid
                          THEN [status |-> "400", err |-> "course"]
                        ELSE IF Assignment_clean(b) # "ok"
                          THEN [status |-> "500", err |-> Assignment_clean(b)]
                        ELSE [status |-> "200", err |-> ""]
       IN /\ assignments' =
               IF r.status = "200"
                 THEN {IF a.id = aid THEN [a EXCEPT !.course = cid] ELSE a :
                         a \in assignments}
               ELSE assignments
          /\ last' = Outcome("move_assignment", u, aid, r.status, r.err)
    /\ UNCHANGED <<accounts, pending, inflight, now, courses, enrollments, submissions>>

(* assignment.due_date = due_date; assignment.save() on a stored           *)
(* assignment, as the tests do: clean(), then the UPDATE.                  *)
Assignment_save(aid, due_date) ==
    /\ \E a \in assignments : a.id = aid
    /\ LET b == [AssignmentById(assignments, aid) EXCEPT !.due_date = due_date]
       IN /\ assignments' =
               IF Assignment_clean(b) = "ok"
                 THEN {IF a.id = aid THEN b ELSE a : a \in assignments}
               ELSE assignments
          /\ last' = IF Assignment_clean(b) = "ok"
                       THEN Outcome("Assignment.save", "", aid, "ok", "")
                     ELSE Outcome("Assignment.save", "", aid, "ValidationError",
                                  Assignment_clean(b))
    /\ UNCHANGED <<accounts, pending, inflight, now, courses, enrollments, submissions>>

(* AssignmentViewSet.partial_update: PATCH /assignments/{pk}/ carrying     *)
(* late_submission_deadline only.  The serializer's validate reads the     *)
(* request's fields (no due_date, allow_late_submissions absent, hence     *)
(* False) and passes; Assignment.save then runs clean() on the instance.   *)
AssignmentViewSet_patch_deadline(u, aid, late_deadline) ==
    /\ LET r == IF ~IsCourseTeacher_has_permission(u, "partial_update")
                  THEN [status |-> "403", err |-> "denied"]
                ELSE IF ~\E a \in AssignmentViewSet_get_queryset(u) : a.id = aid
                  THEN [status |-> "404", err |-> "not_found"]
                ELSE LET a == AssignmentById(assignments, aid)
                         b == [a EXCEPT !.late_submission_deadline = late_deadline]
                     IN IF ~IsCourseTeacher_has_object_permission(
                               u, "PATCH", "Assignment", CourseById(a.course).teacher,
                               a.course)
                          THEN [status |-> "403", err |-> "denied"]
                        ELSE IF Assignment_clean(b) # "ok"
                          THEN [status |-> "500", err |-> Assignment_clean(b)]
                        ELSE [status |-> "200", err |-> ""]
       IN /\ assignments' =
               IF r.status = "200"
                 THEN {IF a.id = aid
                         THEN [a EXCEPT !.late_submission_deadline = late_deadline]
                       ELSE a : a \in assignments}
               ELSE assignments
          /\ last' = Outcome("update_deadline", u, aid, r.status, r.err)
    /\ UNCHANGED <<accounts, pending, inflight, now, courses, enrollments, submissions>>

-----------------------------------------------------------------------------
(* Derived figures of an Enrollment *)

(* n / d rounded to the nearest integer, ties to even (d > 0): the rounding *)
(* of round(x, 2) and of the two-decimal column                            *)
RoundDiv(n, d) ==
    LET q == n \div d
        r == n % d
    IN IF 2 * r < d THEN q
       ELSE IF 2 * r > d THEN q + 1
       ELSE IF q % 2 = 0 THEN q ELSE q + 1

RECURSIVE SumOver(_, _)
SumOver(S, f) ==
    IF S = {} THEN 0
    ELSE LET x == CHOOSE x \in S : TRUE
         IN f[x] + SumOver(S \ {x}, f)

Abs(n) == IF n < 0 THEN -n ELSE n

RECURSIVE Gcd(_, _)
Gcd(a, b) == IF b = 0 THEN a ELSE Gcd(b, a % b)

Lcm(a, b) == (a \div Gcd(a, b)) * b

RECURSIVE GcdOver(_, _)
GcdOver(S, f) ==
    IF S = {} THEN 0
    ELSE LET x == CHOOSE x \in S : TRUE
         IN Gcd(Abs(f[x]), GcdOver(S \ {x}, f))

RECURSIVE LcmOver(_, _)
LcmOver(S, f) ==
    IF S = {} THEN 1
    ELSE LET x == CHOOSE x \in S : TRUE
         IN Lcm(f[x], LcmOver(S \ {x}, f))

(* The submissions of a student in a course *)
SubmissionsOf(s, cid, asgs, subs) ==
    {x \in subs : x.student = s /\ AssignmentById(asgs, x.assignment).course = cid}

(* Enrollment.update_completion: the new completion_percentage *)
completion_value(e, asgs, subs) ==
    LET total_assignments == Cardinality({a \in asgs : a.course = e.course})
        completed == Cardinality(SubmissionsOf(e.student, e.course, asgs, subs))
    IN IF total_assignments = 0 THEN 0
       ELSE RoundDiv(completed * 10000, total_assignments)

(* Enrollment.update_completion *)
update_completion(e, asgs, subs, enrs) ==
    Enrollment_save(
        [e EXCEPT !.completion_percentage = completion_value(e, asgs, subs)], enrs)

(* The loop of Enrollment.update_grade over the reviewed submissions that  *)
(* carry points (all of max_points > 0, of total weight > 0):              *)
(* round(weighted_score / total_weight * 100, 2), in hundredths.  The      *)
(* quotient is the exact one, sum(points/max_points * weight) over         *)
(* sum(weight), brought to the common denominator of the max_points, with  *)
(* the weights divided by their common factor.                             *)
weighted_grade(scored, asgs) ==
    LET mp == [x \in scored |-> AssignmentById(asgs, x.assignment).max_points]
        wt == [x \in scored |-> AssignmentById(asgs, x.assignment).weight]
        unit == GcdOver(scored, wt)
        L == LcmOver(scored, mp)
        weighted_score == [x \in scored |->
                              Val(x.points) * (wt[x] \div unit) * (L \div mp[x])]
        total_weight == [x \in scored |-> wt[x] \div unit]
    IN RoundDiv(10000 * SumOver(scored, weighted_score),
                SumOver(scored, total_weight) * L)

(* The end of Enrollment.update_grade: the rounded grade is stored in the  *)
(* column of five digits, two of them decimals.                            *)
store_grade(e, g, enrs) ==
    IF g > 99999 \/ g < -99999
      THEN [status |-> "InvalidOperation", err |-> "grade", enrs |-> enrs]
    ELSE Enrollment_save([e EXCEPT !.grade = Some(g)], enrs)

(* Enrollment.update_grade *)
update_grade(e, asgs, subs, enrs) ==
    LET reviewed == {x \in SubmissionsOf(e.student, e.course, asgs, subs) :
                        x.is_reviewed}
        scored == {x \in reviewed : x.points # None}
        wt == [x \in scored |-> AssignmentById(asgs, x.assignment).weight]
    IN IF reviewed = {}
         THEN Enrollment_save([e EXCEPT !.grade = None], enrs)
       ELSE IF \E x \in scored : AssignmentById(asgs, x.assignment).max_points = 0
         THEN [status |-> "ZeroDivisionError", err |-> "max_points", enrs |-> enrs]
       ELSE IF SumOver(scored, wt) > 0
         THEN store_grade(e, weighted_grade(scored, asgs), enrs)
       ELSE [status |-> "ok", err |-> "", enrs |-> enrs]

-----------------------------------------------------------------------------
(* Submission *)

(* A new Submission instance with the field defaults *)
NewSubmission(s, aid, content, attachment, subs) ==
    [id |-> Val(BaseModel_id(subs)), assignment |-> aid, student |-> s,
     content |-> content, attachment |-> attachment, points |-> None,
     is_reviewed |-> FALSE, feedback |-> None, is_late |-> FALSE,
     resubmission_count |-> 0]

(* Submission.clean (full_clean calls it; Submission.save does not) *)
Submission_clean(x, pk, asgs, enrs) ==
    LET a == AssignmentById(asgs, x.assignment)
    IN IF ~\E e \in enrs : e.student = x.student /\ e.course = a.course /\ e.is_active
         THEN "not_enrolled"
       ELSE IF ~can_accept_submission(a) /\ pk = None
         THEN IF a.allow_late_submissions THEN "closed" ELSE "past_due"
       ELSE IF a.attachment_required /\ ~x.attachment THEN "attachment"
       ELSE "ok"

(* The tail of Submission.save, after the row is written: the Enrollment   *)
(* is looked up, update_completion runs and, for a reviewed submission,    *)
(* update_grade.  c is what update_completion returned.                    *)
save_recompute(y, e, c, asgs, written) ==
    IF c.status = "ok" /\ y.is_reviewed
      THEN update_grade(CHOOSE r \in c.enrs : r.id = e.id, asgs, written, c.enrs)
    ELSE c

(* What a save leaves: the rows written, and the outcome g of the          *)
(* recomputation with the enrollments it wrote.                            *)
Saved(written, g) ==
    [status |-> g.status, err |-> g.err, subs |-> written, enrs |-> g.enrs]

(* Submission.save once the row is written (rows: written) *)
save_after_write(y, cid, asgs, written, enrs) ==
    IF ~\E e \in enrs : e.student = y.student /\ e.course = cid
      THEN [status |-> "DoesNotExist", err |-> "enrollment", subs |-> written,
            enrs |-> enrs]
    ELSE Saved(written,
               save_recompute(
                   y, CHOOSE e \in enrs : e.student = y.student /\ e.course = cid,
                   update_completion(
                       CHOOSE e \in enrs : e.student = y.student /\ e.course = cid,
                       asgs, written, enrs),
                   asgs, written))

(* Submission.save on a table without the unique_together constraint *)
Submission_save_no_unique(x, pk, asgs, subs, enrs) ==
    save_after_write(
        IF pk = None
          THEN [x EXCEPT !.is_late = now > AssignmentById(asgs, x.assignment).due_date]
        ELSE x,
        AssignmentById(asgs, x.assignment).course, asgs,
        {r \in subs : r.id # x.id} \cup {x}, enrs)

(* Submission.save; pk is the instance's primary key.  The row is written  *)
(* first (unique_together (assignment, student)); the Enrollment lookup    *)
(* and the two recomputations follow, and an exception of theirs leaves    *)
(* the row written.                                                        *)
Submission_save(x, pk, asgs, subs, enrs) ==
    LET a == AssignmentById(asgs, x.assignment)
        y == IF pk = None THEN [x EXCEPT !.is_late = now > a.due_date] ELSE x
        others == {r \in subs : r.id # x.id}
    IN IF \E r \in others : r.assignment = x.assignment /\ r.student = x.student
         THEN [status |-> "IntegrityError", err |-> "unique", subs |-> subs, enrs |-> enrs]
       ELSE save_after_write(y, a.course, asgs, others \cup {y}, enrs)

(* A call or request that ends before anything is written *)
Refused(status, err) ==
    [status |-> status, err |-> err, subs |-> submissions, enrs |-> enrollments]

(* The response to a request whose handler ran a save: ok is the status of *)
(* success; an exception the handler does not catch is answered 500, and   *)
(* what was written before it stays (no ATOMIC_REQUESTS).                  *)
Response(w, ok) ==
    [status |-> IF w.status = "ok" THEN ok ELSE "500", err |-> w.err,
     subs |-> w.subs, enrs |-> w.enrs]

(* The database and the recorded outcome after an operation on submissions *)
Commit(op, user, obj, r) ==
    /\ submissions' = r.subs
    /\ enrollments' = r.enrs
    /\ last' = Outcome(op, user, obj, r.status, r.err)

(* Submission.objects.create(assignment=a, student=s, content=...) *)
Submission_objects_create(s, aid, content) ==
    /\ \E a \in assignments : a.id = aid
    /\ Commit("Submission.objects.create", s, aid,
              Submission_save(NewSubmission(s, aid, content, FALSE, submissions),
                              BaseModel_id(submissions),
                              assignments, submissions, enrollments))
    /\ UNCHANGED <<accounts, pending, inflight, now, courses, assignments>>

(* IsEnrolledStudent.has_permission *)
IsEnrolledStudent_has_permission(u, action) ==
    IF action \in {"create", "submit"} THEN HasStudentProfile(u)
    ELSE action \in {"list", "retrieve"}

(* IsSubmissionOwnerOrCourseTeacher.has_object_permission without the     *)
(* restriction of the owning student to safe methods                       *)
IsSubmissionOwnerOrCourseTeacher_owner_may_write(u, method, x) ==
    IF HasStudentProfile(u) /\ x.student = u THEN TRUE
    ELSE /\ HasTeacherProfile(u)
         /\ CourseById(AssignmentById(assignments, x.assignment).course).teacher = u

(* IsSubmissionOwnerOrCourseTeacher.has_object_permission *)
IsSubmissionOwnerOrCourseTeacher_has_object_permission(u, method, x) ==
    IF HasStudentProfile(u) /\ x.student = u THEN method \in SAFE_METHODS
    ELSE /\ HasTeacherProfile(u)
         /\ CourseById(AssignmentById(assignments, x.assignment).course).teacher = u

(* SubmissionViewSet.get_queryset *)
SubmissionViewSet_get_queryset(u) ==
    IF HasTeacherProfile(u)
      THEN {x \in submissions :
              CourseById(AssignmentById(assignments, x.assignment).course).teacher = u}
    ELSE IF HasStudentProfile(u) THEN {x \in submissions : x.student = u}
    ELSE {}

(* CreateSubmissionSerializer.validate *)
CreateSubmissionSerializer_validate(u, a, attachment) ==
    IF ~\E e \in enrollments : e.student = u /\ e.course = a.course /\ e.is_active
      THEN "not_enrolled"
    ELSE IF ~can_accept_submission(a)
      THEN IF a.allow_late_submissions THEN "closed" ELSE "past_due"
    ELSE IF a.attachment_required /\ ~attachment THEN "attachment"
    ELSE IF \E x \in submissions : x.assignment = a.id /\ x.student = u
      THEN "duplicate"
    ELSE "ok"

(* SubmissionViewSet.perform_create: the checks before serializer.save *)
perform_create_check(u, a) ==
    IF ~HasStudentProfile(u) THEN "only_students"
    ELSE IF ~\E e \in enrollments : e.student = u /\ e.course = a.course /\ e.is_active
      THEN "not_enrolled"
    ELSE IF \E x \in submissions : x.assignment = a.id /\ x.student = u
      THEN "duplicate"
    ELSE "ok"

(* SubmissionViewSet.create after the permission check, for an existing    *)
(* assignment a: serializer validation, perform_create, serializer.save    *)
create_body(u, a, content, attachment) ==
    IF CreateSubmissionSerializer_validate(u, a, attachment) # "ok"
      THEN Refused("400", CreateSubmissionSerializer_validate(u, a, attachment))
    ELSE IF perform_create_check(u, a) # "ok"
      THEN Refused("403", perform_create_check(u, a))
    ELSE Response(
             Submission_save(NewSubmission(u, a.id, content, attachment, submissions),
                             BaseModel_id(submissions),
                             assignments, submissions, enrollments),
             "201")

(* SubmissionViewSet.create: POST /submissions/ (get_permissions,          *)
(* CreateSubmissionSerializer, perform_create, Submission.save)            *)
SubmissionViewSet_create(u, aid, content, attachment) ==
    /\ Commit("submit", u, aid,
              IF ~IsEnrolledStudent_has_permission(u, "create")
                THEN Refused("403", "denied")
              ELSE IF ~\E a \in assignments : a.id = aid
                THEN Refused("400", "does_not_exist")
              ELSE create_body(u, AssignmentById(assignments, aid), content,
                               attachment))
    /\ UNCHANGED <<accounts, pending, inflight, now, courses, assignments>>

(* The steps DRF runs before and inside get_object() of a SubmissionViewSet *)
(* detail action: get_permissions, queryset lookup, object permission.      *)
SubmissionViewSet_admit(u, action, method, sid) ==
    IF action = "grade" /\ ~IsCourseTeacher_has_permission(u, action) THEN "403"
    ELSE IF ~\E x \in SubmissionViewSet_get_queryset(u) : x.id = sid THEN "404"
    ELSE LET x == CHOOSE x \in submissions : x.id = sid
             a == AssignmentById(assignments, x.assignment)
         IN IF action = "grade"
              THEN IF IsCourseTeacher_has_object_permission(
                         u, method, "Submission", CourseById(a.course).teacher, a.course)
                     THEN "ok" ELSE "403"
            ELSE IF IsSubmissionOwnerOrCourseTeacher_has_object_permission(u, method, x)
              THEN "ok" ELSE "403"

(* GradeSubmissionSerializer.validate_points *)
validate_points(value, max_points) ==
    IF value > max_points THEN "exceeds_max"
    ELSE IF value < 0 THEN "negative"
    ELSE "ok"

(* A request body for a submission: which fields it carries, and their     *)
(* values (points may be sent as null).                                    *)
Body(has_points, points, has_reviewed, is_reviewed) ==
    [has_points |-> has_points, points |-> points,
     has_reviewed |-> has_reviewed, is_reviewed |-> is_reviewed]

(* ModelSerializer.update: the request's fields set on the instance *)
apply_fields(x, body) ==
    [x EXCEPT !.points = IF body.has_points THEN body.points ELSE @,
              !.is_reviewed = IF body.has_reviewed THEN body.is_reviewed ELSE @]

(* The end of GradeSubmissionSerializer.update: w is what the save of the  *)
(* updated instance y (of course cid) returned.                            *)
update_regrade(y, cid, w) ==
    IF w.status # "ok" \/ ~y.is_reviewed THEN w
    ELSE Saved(w.subs,
               update_grade(
                   CHOOSE e \in w.enrs : e.student = y.student /\ e.course = cid,
                   assignments, w.subs, w.enrs))

(* GradeSubmissionSerializer.update: the generic update (which saves),     *)
(* then update_grade once more when the instance is reviewed.              *)
GradeSubmissionSerializer_update(x, body) ==
    update_regrade(
        apply_fields(x, body), AssignmentById(assignments, x.assignment).course,
        Submission_save(apply_fields(x, body), Some(x.id), assignments, submissions,
                        enrollments))

(* SubmissionViewSet.grade once get_object() returned submission x of      *)
(* assignment a                                                            *)
grade_body(u, x, a, body) ==
    IF ~HasTeacherProfile(u) THEN Refused("403", "only_teachers")
    ELSE IF CourseById(a.course).teacher # u THEN Refused("403", "not_owner")
    ELSE IF body.has_points /\ body.points = None THEN Refused("500", "TypeError")
    ELSE IF body.has_points /\ validate_points(Val(body.points), a.max_points) # "ok"
      THEN Refused("400", validate_points(Val(body.points), a.max_points))
    ELSE Response(
             GradeSubmissionSerializer_update(
                 x, [body EXCEPT !.has_reviewed = TRUE, !.is_reviewed = TRUE]),
             "200")

(* SubmissionViewSet.grade: POST /submissions/{pk}/grade/ *)
SubmissionViewSet_grade(u, sid, body) ==
    /\ Commit("grade", u, sid,
              IF SubmissionViewSet_admit(u, "grade", "POST", sid) # "ok"
                THEN Refused(SubmissionViewSet_admit(u, "grade", "POST", sid), "denied")
              ELSE grade_body(
                       u, CHOOSE x \in submissions : x.id = sid,
                       AssignmentById(assignments,
                                      (CHOOSE x \in submissions : x.id = sid).assignment),
                       body))
    /\ UNCHANGED <<accounts, pending, inflight, now, courses, assignments>>

(* SubmissionViewSet.partial_update once get_object() returned x: the      *)
(* fields of SubmissionSerializer (points is a non-negative integer or     *)
(* null), then the save                                                    *)
partial_update_body(x, body) ==
    IF body.has_points /\ body.points # None /\ Val(body.points) < 0
      THEN Refused("400", "negative")
    ELSE Response(
             Submission_save(apply_fields(x, body), Some(x.id), assignments,
                             submissions, enrollments),
             "200")

(* SubmissionViewSet.partial_update: PATCH /submissions/{pk}/ through      *)
(* SubmissionSerializer                                                    *)
SubmissionViewSet_partial_update(u, sid, body) ==
    /\ Commit("update_submission", u, sid,
              IF SubmissionViewSet_admit(u, "partial_update", "PATCH", sid) # "ok"
                THEN Refused(SubmissionViewSet_admit(u, "partial_update", "PATCH", sid),
                             "denied")
              ELSE partial_update_body(CHOOSE x \in submissions : x.id = sid, body))
    /\ UNCHANGED <<accounts, pending, inflight, now, courses, assignments>>

(* SubmissionViewSet.destroy: DELETE /submissions/{pk}/ *)
SubmissionViewSet_destroy(u, sid) ==
    /\ LET gate == SubmissionViewSet_admit(u, "destroy", "DELETE", sid)
       IN /\ submissions' = IF gate = "ok" THEN {x \in submissions : x.id # sid}
                            ELSE submissions
          /\ last' = Outcome("delete_submission", u, sid,
                             IF gate = "ok" THEN "204" ELSE gate,
                             IF gate = "ok" THEN "" ELSE "denied")
    /\ UNCHANGED <<accounts, pending, inflight, now, courses, assignments, enrollments>>

-----------------------------------------------------------------------------
Init ==
    /\ now = 0
    /\ courses = {}
    /\ assignments = {}
    /\ enrollments = {}
    /\ submissions = {}
    /\ inflight = {}
    /\ accounts = {}
    /\ pending = {}
    /\ last = Outcome("init", "", 0, "ok", "")

(* Enrollment ledger: courses of t1 (teacher only) and of ts (teacher and   *)
(* student), of one or two seats, open to enrollment or not; enrollment by *)
(* the model layer; enroll and unenroll requests of a teacher, of ts and   *)
(* of a student.                                                           *)
CreateCourseStep ==
    \E u \in {"t1", "ts"}, m \in {1, 2}, open \in BOOLEAN :
        CourseViewSet_create(u, m, TRUE, open, 0, MaxTime)

EnrollmentCreateStep ==
    \E s \in {"ts", "s1"}, c \in courses : Enrollment_objects_create(s, c.id)

EnrollStep ==
    \E u \in {"t1", "ts", "s1"}, cid \in CourseIds : CourseViewSet_enroll(u, cid)

UnenrollStep ==
    \E u \in {"t1", "ts", "s1"}, cid \in CourseIds : CourseViewSet_unenroll(u, cid)

NextEnroll ==
    \/ CreateCourseStep
    \/ EnrollmentCreateStep
    \/ EnrollStep
    \/ UnenrollStep

SpecEnroll == Init /\ [][NextEnroll]_vars

(* Grading: one course of teacher t1, student s1 enrolled by the model      *)
(* layer, assignments, submissions, and the requests that touch points and  *)
(* the review state.                                                        *)
PointsIn == {40, 80}
MaxPointsIn == {50, 100}

GradeCourseStep ==
    CourseViewSet_create("t1", 2, TRUE, TRUE, 0, MaxTime)

GradeEnrollStep ==
    \E c \in courses : Enrollment_objects_create("s1", c.id)

GradeAssignmentStep ==
    \E c \in courses, mp \in MaxPointsIn :
        AssignmentViewSet_create("t1", c.id, mp, 100, MaxTime, FALSE, None, FALSE)

GradeSubmitStep ==
    /\ Cardinality(submissions) < MaxSubmissions
    /\ \E a \in assignments : SubmissionViewSet_create("s1", a.id, "essay", FALSE)

GradeStep ==
    \E x \in submissions, p \in PointsIn :
        SubmissionViewSet_grade("t1", x.id, Body(TRUE, Some(p), FALSE, FALSE))

GradeUpdateStep ==
    \E x \in submissions :
        \/ \E p \in PointsIn :
              SubmissionViewSet_partial_update("t1", x.id, Body(TRUE, Some(p), TRUE, TRUE))
        \/ \E b \in BOOLEAN :
              SubmissionViewSet_partial_update("t1", x.id, Body(FALSE, None, TRUE, b))

GradeReweighStep ==
    \E a \in assignments, mp \in MaxPointsIn :
        AssignmentViewSet_partial_update("t1", a.id, mp, a.weight)

NextGrade ==
    \/ GradeCourseStep
    \/ GradeEnrollStep
    \/ GradeAssignmentStep
    \/ GradeSubmitStep
    \/ GradeStep
    \/ GradeUpdateStep
    \/ GradeReweighStep

SpecGrade == Init /\ [][NextGrade]_vars

(* Completion: one course of teacher t1, students enrolled by the model     *)
(* layer, assignments added over time, submissions made and deleted.        *)
CompletionCourseStep ==
    CourseViewSet_create("t1", 2, TRUE, TRUE, 0, MaxTime)

CompletionEnrollStep ==
    \E s \in {"s1", "s2"}, c \in courses : Enrollment_objects_create(s, c.id)

CompletionAssignmentStep ==
    \E c \in courses :
        AssignmentViewSet_create("t1", c.id, 100, 100, MaxTime, FALSE, None, FALSE)

CompletionSubmitStep ==
    \E s \in {"s1", "s2"}, a \in assignments :
        SubmissionViewSet_create(s, a.id, "essay", FALSE)

CompletionDestroyStep ==
    \E x \in submissions : SubmissionViewSet_destroy("t1", x.id)

NextCompletion ==
    \/ CompletionCourseStep
    \/ CompletionEnrollStep
    \/ CompletionAssignmentStep
    \/ CompletionSubmitStep
    \/ CompletionDestroyStep

SpecCompletion == Init /\ [][NextCompletion]_vars

(* Submitting: one course of ts, who teaches it and, holding a student     *)
(* profile too, enrolls in it and leaves it by request; s1 is enrolled by  *)
(* the model layer, s2 never; ts and s1 submit by request, s2's            *)
(* submissions are made by the model layer; the teacher reviews.           *)
SubmitCourseStep ==
    /\ courses = {}
    /\ CourseViewSet_create("ts", 2, TRUE, TRUE, 0, MaxTime)

SubmitEnrollCreateStep ==
    \E c \in courses : Enrollment_objects_create("s1", c.id)

SubmitEnrollStep ==
    \E c \in courses : CourseViewSet_enroll("ts", c.id)

SubmitUnenrollStep ==
    \E c \in courses : CourseViewSet_unenroll("ts", c.id)

SubmitAssignmentStep ==
    \E c \in courses :
        AssignmentViewSet_create("ts", c.id, 100, 100, MaxTime, FALSE, None, FALSE)

SubmitStep ==
    /\ Cardinality(submissions) < MaxSubmissions
    /\ \E u \in {"ts", "s1"}, a \in assignments :
          SubmissionViewSet_create(u, a.id, "draft", FALSE)

SubmissionCreateStep ==
    /\ Cardinality(submissions) < MaxSubmissions
    /\ \E a \in assignments : Submission_objects_create("s2", a.id, "essay")

SubmitReviewStep ==
    \E x \in submissions :
        SubmissionViewSet_partial_update("ts", x.id, Body(TRUE, Some(40), TRUE, TRUE))

NextSubmit ==
    \/ SubmitCourseStep
    \/ SubmitEnrollCreateStep
    \/ SubmitEnrollStep
    \/ SubmitUnenrollStep
    \/ SubmitAssignmentStep
    \/ SubmitStep
    \/ SubmissionCreateStep
    \/ SubmitReviewStep

SpecSubmit == Init /\ [][NextSubmit]_vars

(* Deadlines: one course of t1 with s1 enrolled; assignments due now, with *)
(* or without late submissions and a late deadline; time passes; s1        *)
(* submits by request and by the model layer; the teacher moves the late   *)
(* deadline to a time still to come.                                       *)
LateCourseStep ==
    /\ courses = {}
    /\ CourseViewSet_create("t1", 2, TRUE, TRUE, 0, MaxTime)

LateEnrollStep ==
    \E c \in courses : Enrollment_objects_create("s1", c.id)

LateAssignmentStep ==
    \E c \in courses, allow_late \in BOOLEAN, late_deadline \in {None, Some(1)} :
        AssignmentViewSet_create("t1", c.id, 100, 100, 0, allow_late, late_deadline, FALSE)

LateSubmitStep ==
    /\ Cardinality(submissions) < MaxSubmissions
    /\ \E a \in assignments : SubmissionViewSet_create("s1", a.id, "essay", FALSE)

LateSubmissionCreateStep ==
    /\ Cardinality(submissions) < MaxSubmissions
    /\ \E a \in assignments : Submission_objects_create("s1", a.id, "essay")

LateExtendStep ==
    \E a \in assignments : AssignmentViewSet_patch_deadline("t1", a.id, Some(MaxTime + 1))

LateAssignmentSaveStep ==
    \E a \in assignments, due_date \in 0..MaxTime : Assignment_save(a.id, due_date)

NextLate ==
    \/ LateCourseStep
    \/ LateEnrollStep
    \/ LateAssignmentStep
    \/ LateSubmitStep
    \/ LateSubmissionCreateStep
    \/ LateExtendStep
    \/ LateAssignmentSaveStep
    \/ Tick

SpecLate == Init /\ [][NextLate]_vars

(* Authorisation: one course of t1 with submissions of s1 and ts; every    *)
(* principal but t1 tries to grade, every principal tries to PATCH points  *)
(* and is_reviewed.                                                        *)
AuthzCourseStep ==
    /\ courses = {}
    /\ CourseViewSet_create("t1", 2, TRUE, TRUE, 0, MaxTime)

AuthzEnrollStep ==
    \E c \in courses, s \in {"s1", "ts"} : Enrollment_objects_create(s, c.id)

AuthzAssignmentStep ==
    \E c \in courses :
        AssignmentViewSet_create("t1", c.id, 100, 100, MaxTime, FALSE, None, FALSE)

AuthzSubmitStep ==
    /\ Cardinality(submissions) < MaxSubmissions
    /\ \E a \in assignments, u \in {"s1", "ts"} :
          SubmissionViewSet_create(u, a.id, "essay", FALSE)

AuthzGradeStep ==
    \E x \in submissions, u \in Users \ {"t1"} :
        SubmissionViewSet_grade(u, x.id, Body(TRUE, Some(40), FALSE, FALSE))

AuthzUpdateStep ==
    \E x \in submissions, u \in Users :
        SubmissionViewSet_partial_update(u, x.id, Body(TRUE, Some(40), TRUE, TRUE))

NextAuthz ==
    \/ AuthzCourseStep
    \/ AuthzEnrollStep
    \/ AuthzAssignmentStep
    \/ AuthzSubmitStep
    \/ AuthzGradeStep
    \/ AuthzUpdateStep

SpecAuthz == Init /\ [][NextAuthz]_vars

(* Concurrent enrollment: one course of ts with room for one or two;      *)
(* creates for ts, s1 and s2 overlap with each other and with the enroll   *)
(* and unenroll requests of ts.                                            *)
RaceCourseStep ==
    /\ courses = {}
    /\ \E m \in {1, 2} : CourseViewSet_create("ts", m, TRUE, TRUE, 0, MaxTime)

RaceCleanStep ==
    \E c \in courses, s \in StudentProfiles : Enrollment_create_clean(s, c.id)

RaceInsertStep ==
    \E f \in inflight : Enrollment_create_insert(f.student, f.course)

RaceEnrollStep ==
    \E c \in courses : CourseViewSet_enroll("ts", c.id)

RaceUnenrollStep ==
    \E c \in courses : CourseViewSet_unenroll("ts", c.id)

NextRace ==
    \/ RaceCourseStep
    \/ RaceCleanStep
    \/ RaceInsertStep
    \/ RaceEnrollStep
    \/ RaceUnenrollStep

SpecRace == Init /\ [][NextRace]_vars

(* Recomputation that fails: one course of t1 with s1 enrolled;            *)
(* assignments worth 0 or 50 points; s1 submits; the teacher reviews with  *)
(* 0 or 40 points, by PATCH and by the grade action.                       *)
RecomputeCourseStep ==
    /\ courses = {}
    /\ CourseViewSet_create("t1", 2, TRUE, TRUE, 0, MaxTime)

RecomputeEnrollStep ==
    \E c \in courses : Enrollment_objects_create("s1", c.id)

RecomputeAssignmentStep ==
    \E c \in courses, mp \in {0, 50} :
        AssignmentViewSet_create("t1", c.id, mp, 100, MaxTime, FALSE, None, FALSE)

RecomputeSubmitStep ==
    /\ Cardinality(submissions) < MaxSubmissions
    /\ \E a \in assignments : SubmissionViewSet_create("s1", a.id, "essay", FALSE)

RecomputeUpdateStep ==
    \E x \in submissions, p \in {0, 40} :
        SubmissionViewSet_partial_update("t1", x.id, Body(TRUE, Some(p), TRUE, TRUE))

RecomputeGradeStep ==
    \E x \in submissions :
        SubmissionViewSet_grade("t1", x.id, Body(TRUE, Some(0), FALSE, FALSE))

NextRecompute ==
    \/ RecomputeCourseStep
    \/ RecomputeEnrollStep
    \/ RecomputeAssignmentStep
    \/ RecomputeSubmitStep
    \/ RecomputeUpdateStep
    \/ RecomputeGradeStep

SpecRecompute == Init /\ [][NextRecompute]_vars

(* Acceptance over time: one course of t1; assignments of every            *)
(* configuration of due date, late submissions and late deadline that the  *)
(* create request lets through; time passes.                               *)
AcceptCourseStep ==
    /\ courses = {}
    /\ CourseViewSet_create("t1", 2, TRUE, TRUE, 0, MaxTime)

AcceptAssignmentStep ==
    \E c \in courses, due_date \in 0..MaxTime, allow_late \in BOOLEAN,
       late_deadline \in {None} \cup {Some(t) : t \in 0..MaxTime} :
        AssignmentViewSet_create("t1", c.id, 100, 100, due_date, allow_late,
                                 late_deadline, FALSE)

NextAcceptance ==
    \/ AcceptCourseStep
    \/ AcceptAssignmentStep
    \/ Tick

SpecAcceptance == Init /\ [][NextAcceptance]_vars

(* Placement of assignments: a course made by request and one made        *)
(* directly, of t1 and t2 in either order; both teachers create            *)
(* assignments in, and move assignments to, either course.                 *)
PlaceCourseStep ==
    \E u \in {"t1", "t2"} : CourseViewSet_create(u, 2, TRUE, TRUE, 0, MaxTime)

PlaceFixtureCourseStep ==
    \E t \in {"t1", "t2"} : Course_objects_create(t, 2, 0, MaxTime)

PlaceAssignmentStep ==
    \E u \in {"t1", "t2"}, c \in courses :
        AssignmentViewSet_create(u, c.id, 100, 100, MaxTime, FALSE, None, FALSE)

PlaceMoveStep ==
    \E u \in {"t1", "t2"}, a \in assignments, cid \in CourseIds :
        AssignmentViewSet_patch_course(u, a.id, cid)

NextPlace ==
    \/ PlaceCourseStep
    \/ PlaceFixtureCourseStep
    \/ PlaceAssignmentStep
    \/ PlaceMoveStep

SpecPlace == Init /\ [][NextPlace]_vars

(* Course dates: courses of t1 made by request and directly, with every   *)
(* pair of dates; the dates are then changed by PATCH (one date or both)   *)
(* and by a save of the instance.                                          *)
DatesIn == 0..MaxTime

DatesCourseStep ==
    /\ courses = {}
    /\ \E s \in DatesIn, e \in DatesIn : CourseViewSet_create("t1", 2, TRUE, TRUE, s, e)

DatesFixtureCourseStep ==
    \E s \in DatesIn, e \in DatesIn : Course_objects_create("t1", 2, s, e)

DatesUpdateStep ==
    \E c \in courses, s \in {None} \cup {Some(t) : t \in DatesIn},
       e \in {None} \cup {Some(t) : t \in DatesIn} :
        CourseViewSet_partial_update("t1", c.id, s, e)

DatesSaveStep ==
    \E c \in courses, s \in DatesIn, e \in DatesIn : Course_save(c.id, s, e)

NextDates ==
    \/ DatesCourseStep
    \/ DatesFixtureCourseStep
    \/ DatesUpdateStep
    \/ DatesSaveStep

SpecDates == Init /\ [][NextDates]_vars

-----------------------------------------------------------------------------
(* Claims about the enrollment ledger, checked under SpecEnroll *)

NoRow(u, cid) == ~\E e \in enrollments : e.student = u /\ e.course = cid

(* C1: creating a new Enrollment for a student who has no row in a course   *)
(* whose active enrollments already number max_students or more fails with  *)
(* a capacity error and adds no row.                                        *)
C1_CapacityRefused ==
    [][\A s \in StudentProfiles, c \in courses :
          ( /\ last'.op = "Enrollment.objects.create"
            /\ last'.user = s /\ last'.obj = c.id
            /\ NoRow(s, c.id)
            /\ student_count(c.id, enrollments) >= c.max_students )
          => (last'.err = "capacity" /\ enrollments' = enrollments)]_vars

(* C2: a student's enroll request on an enrollment-active course holding    *)
(* max_students - 1 active enrollments, the student having no row yet,      *)
(* succeeds and leaves an active Enrollment of that student in the course.  *)
C2_EnrollBelowCapacity ==
    [][\A u \in StudentProfiles, c \in courses :
          ( /\ last'.op = "enroll" /\ last'.user = u /\ last'.obj = c.id
            /\ is_enrollment_active(c)
            /\ student_count(c.id, enrollments) = c.max_students - 1
            /\ NoRow(u, c.id) )
          => ( /\ last'.status = "201"
               /\ \E e \in enrollments' :
                     e.student = u /\ e.course = c.id /\ e.is_active )]_vars

C26_CapacityKeptByEnrollSteps ==
    [][\A c \in courses :
          ( /\ last'.op \in {"enroll", "unenroll", "Enrollment.objects.create"}
            /\ last'.obj = c.id
            /\ c \in courses'
            /\ student_count(c.id, enrollments) <= c.max_students )
          => student_count(c.id, enrollments') <= c.max_students]_vars

-----------------------------------------------------------------------------
(* Claims about the grade of an Enrollment, checked under SpecGrade *)

(* The reviewed submissions of the student of enrollment e in its course *)
ReviewedOf(e, asgs, subs) ==
    {x \in SubmissionsOf(e.student, e.course, asgs, subs) : x.is_reviewed}

(* C4: in every reachable state an Enrollment's grade is null if and only   *)
(* if its student has no reviewed submission in the course.                 *)
C4_GradeNullIffNoReviewed ==
    \A e \in enrollments :
        (e.grade = None) <=> (ReviewedOf(e, assignments, submissions) = {})

(* C5: a grade request by the teacher who owns the course, with points      *)
(* within [0, max_points], succeeds; right after it the submission is       *)
(* reviewed with those points and the owning Enrollment's grade is          *)
(* round(sum(points/max_points * weight) / sum(weight) * 100, 2) over the   *)
(* student's reviewed submissions in the course.                            *)
C5_GradeSetsReviewedAndGrade ==
    [][\A x \in submissions, p \in PointsIn :
          ( /\ SubmissionViewSet_grade("t1", x.id, Body(TRUE, Some(p), FALSE, FALSE))
            /\ CourseById(AssignmentById(assignments, x.assignment).course).teacher = "t1"
            /\ p <= AssignmentById(assignments, x.assignment).max_points )
          => ( /\ last'.status = "200"
               /\ \E y \in submissions' :
                     y.id = x.id /\ y.is_reviewed /\ y.points = Some(p)
               /\ \A e \in enrollments' :
                     e.student = x.student
                     => e.grade = Some(weighted_grade(
                                          ReviewedOf(e, assignments', submissions'),
                                          assignments')) )]_vars

(* C6: whenever an Enrollment's grade is not null it lies in [0, 100]       *)
(* (hundredths: [0, 10000]).                                                *)
C6_GradeInRange ==
    \A e \in enrollments :
        e.grade # None => (Val(e.grade) >= 0 /\ Val(e.grade) <= 10000)

(* C27: in every reachable state the points of every Submission are null    *)
(* or lie in [0, max_points] of its assignment as it is now, whichever       *)
(* write last changed them: the grade action, an update of the submission    *)
(* by the course teacher, or a change of the assignment's max_points.        *)
C27_PointsWithinMaxPoints ==
    \A x \in submissions :
        x.points # None
        => ( /\ Val(x.points) >= 0
             /\ Val(x.points) <= AssignmentById(assignments, x.assignment).max_points )

-----------------------------------------------------------------------------
(* Claims about completion_percentage, checked under SpecCompletion *)

(* The stored completion of every Enrollment is the fraction its course's   *)
(* assignments and its student's submissions give now.                      *)
CompletionAccurate ==
    \A e \in enrollments :
        e.completion_percentage = completion_value(e, assignments, submissions)

(* C7: for every Enrollment, 0 <= completion_percentage <= 100, and it is   *)
(* zero if and only if the course has no assignment or the student has no   *)
(* submission in the course.                                                *)
C7_CompletionRange ==
    \A e \in enrollments :
        /\ e.completion_percentage >= 0
        /\ e.completion_percentage <= 10000
        /\ (e.completion_percentage = 0) <=>
              \/ {a \in assignments : a.course = e.course} = {}
              \/ SubmissionsOf(e.student, e.course, assignments, submissions) = {}

(* C8: the stored completion follows the course's current assignments:      *)
(* when an assignment is added to a course, every Enrollment whose stored   *)
(* value was the fraction before holds the new fraction after (1 of 1       *)
(* becomes 1 of 2).                                                         *)
C8_CompletionTracksAssignments ==
    [][( /\ last'.op = "create_assignment" /\ last'.status = "201"
         /\ CompletionAccurate )
       => CompletionAccurate']_vars

-----------------------------------------------------------------------------
(* Claims about submitting, checked under SpecSubmit *)

(* The student of submission x holds an active Enrollment in its course *)
ActivelyEnrolled(s, cid) ==
    \E e \in enrollments : e.student = s /\ e.course = cid /\ e.is_active

(* C9: no Submission row is ever created for a student who holds no active  *)
(* Enrollment in the assignment's course at that time.                      *)
C9_NoSubmissionWithoutEnrollment ==
    [][\A x \in submissions' :
          (~\E y \in submissions : y.id = x.id)
          => ActivelyEnrolled(x.student,
                              AssignmentById(assignments, x.assignment).course)]_vars

-----------------------------------------------------------------------------
(* Claims about closed courses, checked under SpecEnroll *)

(* C18: no Enrollment row is added to a course whose is_enrollment_active *)
(* is false.                                                               *)
C18_NoEnrollmentWhenClosed ==
    [][\A c \in courses :
          ~is_enrollment_active(c)
            => \A e \in enrollments' :
                  e.course = c.id => \E r \in enrollments : r.id = e.id]_vars

-----------------------------------------------------------------------------
(* Claims about deadlines, checked under SpecLate *)

(* The Submission rows a step adds *)
CreatedRows == {x \in submissions' : ~\E y \in submissions : y.id = x.id}

(* The course of the assignment a Submission row answers *)
CourseOfRow(x) == AssignmentById(assignments, x.assignment).course

(* C11: no Submission row is created for an enrolled student at a time     *)
(* when the assignment's can_accept_submission is false.                   *)
C11_NoSubmissionWhenClosed ==
    [][\A x \in CreatedRows :
          ActivelyEnrolled(x.student, CourseOfRow(x))
            => can_accept_submission(AssignmentById(assignments, x.assignment))]_vars

(* C12: a Submission created by an enrolled student while the assignment   *)
(* accepts submissions is stored with is_late = (creation time > due_date).*)
C12_IsLateSetAtCreation ==
    [][\A x \in CreatedRows :
          /\ ActivelyEnrolled(x.student, CourseOfRow(x))
          /\ can_accept_submission(AssignmentById(assignments, x.assignment))
          => x.is_late = (now > AssignmentById(assignments, x.assignment).due_date)]_vars

(* C20: when the teacher who owns the course moves the late deadline of a *)
(* CLOSED assignment that allows late submissions to a time later than     *)
(* now, the change is stored and the assignment accepts submissions again. *)
C20_LateDeadlineExtensionTakesEffect ==
    [][\A a \in assignments :
          ( /\ last'.op = "update_deadline" /\ last'.obj = a.id
            /\ a.allow_late_submissions
            /\ ~can_accept_submission(a) )
          => ( /\ last'.status = "200"
               /\ \E b \in assignments' :
                     /\ b.id = a.id
                     /\ b.late_submission_deadline = Some(MaxTime + 1)
                     /\ can_accept_submission(b)' )]_vars

(* The late-deadline rule of Assignment.clean alone *)
LateDeadlineInOrder(a) ==
    ~( /\ a.allow_late_submissions
       /\ a.late_submission_deadline # None
       /\ Val(a.late_submission_deadline) < a.due_date )

(* C21: an assignment is never created with a due_date in the past, and    *)
(* the rule is not applied to updates: saving a stored assignment with a   *)
(* due_date of any time, past ones included, succeeds and stores it        *)
(* (provided the late deadline stays in order).                            *)
C21_DueDateCheckedAtCreationOnly ==
    [][/\ \A b \in assignments' :
             (~\E a \in assignments : a.id = b.id) => b.due_date >= now
       /\ \A a \in assignments, d \in 0..MaxTime :
             ( /\ Assignment_save(a.id, d)
               /\ LateDeadlineInOrder([a EXCEPT !.due_date = d]) )
             => ( /\ last'.status = "ok"
                  /\ [a EXCEPT !.due_date = d] \in assignments' )]_vars

-----------------------------------------------------------------------------
(* Claims about who may grade and with what, checked under SpecGrade and   *)
(* SpecAuthz                                                               *)

(* C13: a grade request by the teacher who owns the course, with points    *)
(* above max_points, is answered with a validation error (400) and leaves  *)
(* the submissions and the Enrollments as they were.                       *)
C13_GradeOutOfRangeRefused ==
    [][\A x \in submissions, p \in PointsIn :
          ( /\ SubmissionViewSet_grade("t1", x.id, Body(TRUE, Some(p), FALSE, FALSE))
            /\ CourseById(AssignmentById(assignments, x.assignment).course).teacher = "t1"
            /\ p > AssignmentById(assignments, x.assignment).max_points )
          => ( /\ last'.status = "400"
               /\ submissions' = submissions
               /\ enrollments' = enrollments )]_vars

(* The teacher who owns the course of the submission with id sid *)
OwningTeacher(sid) ==
    CourseById(AssignmentById(assignments,
                              (CHOOSE x \in submissions : x.id = sid).assignment).course).teacher

(* C29: the teacher who owns the course of a submission may grade it: a    *)
(* grade request by that teacher with points in [0, max_points] passes the *)
(* permission checks of the grade action (it is not answered 403) and      *)
(* leaves the submission reviewed with those points.                       *)
C29_OwnerMayGrade ==
    [][\A x \in submissions, p \in PointsIn :
          ( /\ SubmissionViewSet_grade("t1", x.id, Body(TRUE, Some(p), FALSE, FALSE))
            /\ OwningTeacher(x.id) = "t1"
            /\ p <= AssignmentById(assignments, x.assignment).max_points )
          => ( /\ last'.status # "403"
               /\ \E y \in submissions' :
                     y.id = x.id /\ y.is_reviewed /\ y.points = Some(p) )]_vars

(* The step just taken is a grade request or a PATCH of points and         *)
(* is_reviewed on an existing submission by someone other than the teacher *)
(* who owns its course.                                                    *)
GradingByNonOwner(ops) ==
    /\ last'.op \in ops
    /\ \E x \in submissions : x.id = last'.obj
    /\ last'.user # OwningTeacher(last'.obj)

-----------------------------------------------------------------------------
(* Claims about recomputation, checked under SpecGrade and SpecRecompute   *)

(* The step just taken created a Submission or changed the review state of *)
(* one                                                                     *)
ReviewStateChanged ==
    \/ CreatedRows # {}
    \/ \E x \in submissions, y \in submissions' :
          x.id = y.id /\ x.is_reviewed # y.is_reviewed

(* The reviewed submissions that carry points: the ones update_grade sums *)
ScoredOf(e, asgs, subs) == {x \in ReviewedOf(e, asgs, subs) : x.points # None}

(* C15: after a successful step that created a Submission or changed a     *)
(* review state in either direction, completion is accurate and the grade  *)
(* of every Enrollment is that of its currently reviewed submissions: null *)
(* when there is none, their weighted grade when some carry points.        *)
C15_RecomputeOnReviewChange ==
    [][(ReviewStateChanged /\ last'.status \in {"200", "201"})
          => \A e \in enrollments' :
                /\ e.completion_percentage
                     = completion_value(e, assignments', submissions')
                /\ ReviewedOf(e, assignments', submissions') = {} => e.grade = None
                /\ ScoredOf(e, assignments', submissions') # {}
                     => e.grade = Some(weighted_grade(
                                          ScoredOf(e, assignments', submissions'),
                                          assignments'))]_vars

(* The step just taken wrote a Submission: a new row, or new points or a   *)
(* new review state on an old one                                          *)
SubmissionWritten ==
    \/ CreatedRows # {}
    \/ \E x \in submissions, y \in submissions' :
          x.id = y.id /\ (x.points # y.points \/ x.is_reviewed # y.is_reviewed)

(* C17: a step that persists a Submission, or new points or review state,  *)
(* returns no error to its caller, whether or not the recomputation of     *)
(* completion and grade went through.                                      *)
C17_WriteSucceedsWhenRecomputeFails ==
    [][SubmissionWritten => last'.status \in {"200", "201", "ok"}]_vars

(* C30: grade recomputation never divides by zero and always leaves a      *)
(* defined result: every stored assignment has max_points > 0, no request  *)
(* ends in the ZeroDivisionError of update_grade, and after a request that *)
(* saved a reviewed submission the grade of its Enrollment is that of the  *)
(* current reviewed submissions, not an earlier value.                     *)
C30_RecomputeDefined ==
    /\ \A a \in assignments : a.max_points > 0
    /\ last.err # "max_points"
    /\ (last.op = "update_submission" /\ last.status = "200")
         => \A e \in enrollments :
               ScoredOf(e, assignments, submissions) # {}
               => e.grade = Some(weighted_grade(
                                    ScoredOf(e, assignments, submissions), assignments))

-----------------------------------------------------------------------------
(* Claims about concurrent enrollment, checked under SpecRace *)

(* C16: under every interleaving of enrollment attempts of different       *)
(* students for one course, the number of active enrollments of the course *)
(* never exceeds max_students.                                             *)
C16_CapacityUnderConcurrency ==
    \A c \in courses : student_count(c.id, enrollments) <= c.max_students

-----------------------------------------------------------------------------
(* Claims about acceptance over time, checked under SpecAcceptance *)

(* The phase of an assignment at the present time *)
Phase(a) ==
    IF now <= a.due_date THEN "OPEN"
    ELSE IF /\ a.allow_late_submissions
            /\ (a.late_submission_deadline = None
                  \/ now <= Val(a.late_submission_deadline))
      THEN "LATE_WINDOW"
    ELSE "CLOSED"

(* The order of the phases *)
PhaseRank(p) == IF p = "OPEN" THEN 0 ELSE IF p = "LATE_WINDOW" THEN 1 ELSE 2

(* C19: can_accept_submission is true exactly in the phases OPEN and       *)
(* LATE_WINDOW, and for an assignment whose configuration a step leaves    *)
(* alone the phase never moves back: once can_accept_submission is false   *)
(* it is false after every later step.                                     *)
C19_AcceptanceMovesForward ==
    [][\A a \in assignments :
          /\ can_accept_submission(a) <=> Phase(a) # "CLOSED"
          /\ a \in assignments'
               => /\ (can_accept_submission(a) <=> Phase(a) # "CLOSED")'
                  /\ PhaseRank(Phase(a))' >= PhaseRank(Phase(a))
                  /\ ~can_accept_submission(a) => ~can_accept_submission(a)']_vars

(* C19 witness: an assignment that allowed late submissions until a late   *)
(* deadline after its due date has passed through OPEN and LATE_WINDOW and *)
(* is CLOSED now.                                                          *)
C19_Witness ==
    \E a \in assignments :
        /\ a.allow_late_submissions
        /\ a.late_submission_deadline # None
        /\ a.due_date < Val(a.late_submission_deadline)
        /\ now > Val(a.late_submission_deadline)
        /\ ~can_accept_submission(a)

(* C22: every stored assignment whose late_submission_deadline is set has  *)
(* late_submission_deadline >= due_date, whatever its                      *)
(* allow_late_submissions.                                                 *)
C22_LateDeadlineNotBeforeDue ==
    \A a \in assignments :
        a.late_submission_deadline # None
          => Val(a.late_submission_deadline) >= a.due_date

-----------------------------------------------------------------------------
(* Claims about the placement of assignments, checked under SpecPlace *)

(* The assignments of course cid among asgs *)
AssignmentsOf(cid, asgs) == {a \in asgs : a.course = cid}

(* C23: a request of anyone but the teacher who owns a course leaves the   *)
(* assignments of that course as they were: nobody else creates an         *)
(* assignment in it or moves one into it.                                  *)
C23_OnlyOwnerPlacesAssignments ==
    [][\A c \in courses :
          ( /\ last'.op \in {"create_assignment", "move_assignment"}
            /\ last'.user # c.teacher )
          => AssignmentsOf(c.id, assignments') = AssignmentsOf(c.id, assignments)]_vars

-----------------------------------------------------------------------------
(* Claims about the dates of a course, checked under SpecDates *)

(* C24: every stored Course has end_date >= start_date: no create, PATCH   *)
(* of one date or both, or save of the instance ever stores an end_date    *)
(* before the start_date, and an operation that stops on the dates answers *)
(* with a validation error (400 to a request, ValidationError to a model   *)
(* call) and leaves the courses as they were.                              *)
C24_CourseDatesInOrder ==
    [][/\ \A c \in courses' : c.end_date >= c.start_date
       /\ last'.err = "end_date"
            => ( /\ last'.status \in {"400", "ValidationError"}
                 /\ courses' = courses )]_vars

(* C24 witness: a PATCH of end_date alone, to a date before the stored     *)
(* start_date, has just been refused with a validation error.              *)
C24_Witness ==
    /\ last.op = "update_course" /\ last.status = "400" /\ last.err = "end_date"
    /\ \E c \in courses : c.id = last.obj /\ c.start_date > 0 /\ c.end_date >= c.start_date

-----------------------------------------------------------------------------
(* Accounts and role profiles *)

MaxUsers == 2

(* UserType: the values of User.user_type *)
UserType == {"teacher", "student", "super_admin", "user"}

(* post_save receiver create_user_profile: the profiles a newly created    *)
(* user is given; a user_type that is neither UserType.TEACHER nor         *)
(* UserType.STUDENT gets none.                                             *)
create_user_profile(user_type) ==
    [teacher_profile |-> user_type = "teacher",
     student_profile |-> user_type = "student"]

(* User.objects.create_user followed by its post_save receivers; the       *)
(* user_type column is a CharField whose choices are not checked on save.  *)
User_objects_create_user(user_type) ==
    /\ Cardinality(accounts) < MaxUsers
    /\ LET id == uuid4(accounts)
       IN /\ accounts' = accounts \cup
                {[id |-> id, user_type |-> user_type] @@ create_user_profile(user_type)}
          /\ last' = Outcome("create_user", "", id, "ok", "")
    /\ UNCHANGED <<now, courses, assignments, enrollments, submissions, inflight, pending>>

(* TeacherProfile.objects.get_or_create(user=user) and                     *)
(* StudentProfile.objects.get_or_create(user=user): each profile is its    *)
(* own one-to-one relation to the user, looked up without regard to        *)
(* user_type or to the other profile.                                      *)
Profile_objects_get_or_create(uid, profile) ==
    /\ \E a \in accounts :
         /\ a.id = uid
         /\ accounts' = (accounts \ {a}) \cup {[a EXCEPT ![profile] = TRUE]}
         /\ last' = Outcome("get_or_create", "", uid,
                            IF a[profile] THEN "got" ELSE "created", "")
    /\ UNCHANGED <<now, courses, assignments, enrollments, submissions, inflight, pending>>

(* Accounts as registration, the admin and the fixtures create them: any   *)
(* UserType value, or the upper-case spellings the course fixtures pass.   *)
NextProfiles ==
    \/ \E user_type \in UserType \cup {"TEACHER", "STUDENT"} :
         User_objects_create_user(user_type)
    \/ \E a \in accounts, profile \in {"teacher_profile", "student_profile"} :
         Profile_objects_get_or_create(a.id, profile)

SpecProfiles == Init /\ [][NextProfiles]_vars

(* C25: every user holds exactly one role profile: a teacher exactly a     *)
(* TeacherProfile, a student exactly a StudentProfile, and no user holds   *)
(* both profiles or neither.                                               *)
C25_ExactlyOneProfile ==
    \A a \in accounts :
        /\ a.teacher_profile # a.student_profile
        /\ a.user_type = "teacher" => a.teacher_profile
        /\ a.user_type = "student" => a.student_profile

-----------------------------------------------------------------------------
(* Overlapping grade recomputations *)

(* SubmissionViewSet.partial_update of a reviewed submission, up to the    *)
(* query of Enrollment.update_grade: the request is admitted, the row is   *)
(* written (autocommit, no ATOMIC_REQUESTS), update_completion runs and    *)
(* update_grade reads the student's reviewed submissions of the course.    *)
(* The rows read are kept in pending until the grade is stored.            *)
SubmissionViewSet_partial_update_read(u, sid, body) ==
    /\ SubmissionViewSet_admit(u, "partial_update", "PATCH", sid) = "ok"
    /\ body.has_points /\ body.points # None /\ Val(body.points) >= 0
    /\ ~\E q \in pending : q.sid = sid
    /\ LET x == CHOOSE r \in submissions : r.id = sid
           y == apply_fields(x, body)
           cid == AssignmentById(assignments, x.assignment).course
           written == (submissions \ {x}) \cup {y}
       IN /\ y.is_reviewed
          /\ \E e \in enrollments :
               /\ e.student = y.student /\ e.course = cid
               /\ update_completion(e, assignments, written, enrollments).status = "ok"
               /\ enrollments' =
                     update_completion(e, assignments, written, enrollments).enrs
               /\ pending' = pending \cup
                     {[sid |-> sid, user |-> u, enrollment |-> e.id, rows |-> written]}
          /\ submissions' = written
          /\ last' = Outcome("update_submission", u, sid, "recomputing", "")
    /\ UNCHANGED <<now, courses, assignments, inflight, accounts>>

(* The rest of that request: update_grade computes the grade from the rows *)
(* it read and stores it with save(update_fields=["grade"]); the response  *)
(* follows.                                                                *)
SubmissionViewSet_partial_update_store(q) ==
    /\ q \in pending
    /\ LET g == update_grade(CHOOSE e \in enrollments : e.id = q.enrollment,
                             assignments, q.rows, enrollments)
       IN /\ enrollments' = g.enrs
          /\ last' = Outcome("update_submission", q.user, q.sid,
                             IF g.status = "ok" THEN "200" ELSE "500", g.err)
    /\ pending' = pending \ {q}
    /\ UNCHANGED <<now, courses, assignments, submissions, inflight, accounts>>

(* Grading by PATCH of points and is_reviewed, by the course teacher t1,   *)
(* of the submissions of s1 in one course; requests for different          *)
(* submissions overlap.                                                    *)
NextRegrade ==
    \/ GradeCourseStep
    \/ GradeEnrollStep
    \/ GradeAssignmentStep
    \/ GradeSubmitStep
    \/ \E x \in submissions, p \in PointsIn :
         SubmissionViewSet_partial_update_read("t1", x.id, Body(TRUE, Some(p), TRUE, TRUE))
    \/ \E q \in pending : SubmissionViewSet_partial_update_store(q)

SpecRegrade == Init /\ [][NextRegrade]_vars

(* C28: when grade operations for different submissions of one student in  *)
(* one course overlap, then once all of them have completed the            *)
(* Enrollment's grade is the weighted average over all the reviewed         *)
(* submissions: no interleaving leaves a grade computed from only some of  *)
(* them.                                                                   *)
C28_GradeFromAllReviewed ==
    pending = {}
    => \A e \in enrollments :
          ReviewedOf(e, assignments, submissions) # {}
          => e.grade = Some(weighted_grade(ReviewedOf(e, assignments, submissions),
                                           assignments))

====
